---- MODULE Spec2Model ----
(***************************************************************************)
(* A model of compgraph's streaming operators (compgraph/operations.py):   *)
(* the four merge-joiners and the Reduce operator with its reducers.       *)
(*                                                                         *)
(* Python values are tagged records, so that None, integers and a missing  *)
(* column stay distinct.  A row (a dict) is a function from its column     *)
(* names to values.  A row object of an input stream is identified by its  *)
(* position in that stream: the joiners' row_a, row_b and matched_rows_*   *)
(* hold references to input rows, modelled as positions.  A generator is   *)
(* a state machine: pc is the place where the generator body stands, and   *)
(* one action is one iteration of one of its loops.                        *)
(***************************************************************************)
EXTENDS Integers, Sequences, FiniteSets, Bags, TLC

\* ------------------------------------------------------------- bounds ---
MaxLen == 3
MaxKey == 2
MaxRed == 3

\* ------------------------------------------------------- Python values ---
I(n) == [t |-> "int", v |-> n]
None == [t |-> "None", v |-> 0]

\* bool(x): None and 0 are falsy, every other integer is truthy.
Truthy(x) == x.t = "int" /\ x.v # 0

\* {**x, **y}: the columns of both, y's value where both have the column.
Merge(x, y) == y @@ x

Range(s) == {s[i] : i \in DOMAIN s}

\* ---------------------------------------------------------- key tuples ---
Keys == <<"k">>

\* tuple(row[k] for k in keys)
KeyOf(row) == [i \in 1..Len(Keys) |-> row[Keys[i]]]

\* Python's tuple order: the first differing position decides; a proper
\* prefix is smaller.
TupleLt(x, y) ==
    \/ \E i \in 1..Len(x) :
          /\ i <= Len(y)
          /\ \A j \in 1..(i - 1) : x[j] = y[j]
          /\ x[i] # y[i]
          /\ x[i].v < y[i].v
    \/ /\ Len(x) < Len(y)
       /\ \A j \in 1..Len(x) : x[j] = y[j]

TupleGe(x, y) == ~TupleLt(x, y)

\* ------------------------------------------------------------- inputs ---
SideRow(k, side) == [c \in {"k", side} |-> IF c = "k" THEN I(k) ELSE I(1)]

\* Left rows carry column "a", right rows column "b"; column "v" may be
\* present on either side (rows have no fixed schema).
LeftRows ==
    {SideRow(k, "a") : k \in 1..MaxKey}
      \cup {Merge(SideRow(k, "a"), [v |-> I(10)]) : k \in 1..MaxKey}

RightRows ==
    {SideRow(k, "b") : k \in 1..MaxKey}
      \cup {Merge(SideRow(k, "b"), [v |-> I(20)]) : k \in 1..MaxKey}

SeqsUpTo(S, n) == UNION {[1..m -> S] : m \in 0..n}

IsSorted(rows) ==
    \A i \in 1..(Len(rows) - 1) : ~TupleLt(KeyOf(rows[i + 1]), KeyOf(rows[i]))

SortedSeqs(S) == {rows \in SeqsUpTo(S, MaxLen) : IsSorted(rows)}

\* -------------------------------------------------------------- state ---
VARIABLES
    joiner,               \* the strategy: "inner", "left", "right", "outer"
    a_suffix, b_suffix,   \* Joiner._a_suffix, Joiner._b_suffix
    rows_a, rows_b,       \* the two input streams
    pc,                   \* where the joiner's generator stands
    iter_a, iter_b,       \* rows taken from iter_a, iter_b so far
    overlapping_columns,
    matched_rows,         \* matched_rows_b (inner, left), matched_rows_a (right)
    all_keys,             \* OuterJoiner: the keys not iterated yet
    out,                  \* the rows yielded so far
    prov                  \* for each yielded row, the input rows it is from

joinVars == <<joiner, a_suffix, b_suffix, rows_a, rows_b, pc, iter_a, iter_b,
              overlapping_columns, matched_rows, all_keys, out, prov>>

VARIABLES
    reducer,              \* "first" or "count"
    red_rows,             \* Reduce's input stream
    red_pc,               \* where Reduce's generator stands
    red_pos,              \* rows taken from the input so far
    red_calls,            \* the groups handed to the reducer, in call order
    red_out               \* the rows yielded so far

reduceVars == <<reducer, red_rows, red_pc, red_pos, red_calls, red_out>>

\* The other components, each with its state as one record.
VARIABLES
    srt,                  \* ExternalSort: a run of the external merge sort
    spl,                  \* Split.__call__: a call of the mapper on one row
    top,                  \* TopN.__call__: a call of the reducer on one group
    duo,                  \* one joiner called twice on the same inputs
    sh,                   \* two runs of one graph over shared row objects
    bld,                  \* the Graph objects built so far
    ex                    \* one run of a graph: Graph.run and its generators

newVars == <<srt, spl, top, duo, sh, bld, ex>>

vars == <<joinVars, reduceVars, newVars>>

Idle == [pc |-> "idle"]

\* The components other than x are not in use.
OthersIdle(x) ==
    /\ IF x = "srt" THEN TRUE ELSE srt = Idle
    /\ IF x = "spl" THEN TRUE ELSE spl = Idle
    /\ IF x = "top" THEN TRUE ELSE top = Idle
    /\ IF x = "duo" THEN TRUE ELSE duo = Idle
    /\ IF x = "sh" THEN TRUE ELSE sh = Idle
    /\ IF x = "bld" THEN TRUE ELSE bld = Idle
    /\ IF x = "ex" THEN TRUE ELSE ex = Idle

\* A step of component x leaves the other components alone.
OthersUnchanged(x) ==
    /\ IF x = "srt" THEN TRUE ELSE srt' = srt
    /\ IF x = "spl" THEN TRUE ELSE spl' = spl
    /\ IF x = "top" THEN TRUE ELSE top' = top
    /\ IF x = "duo" THEN TRUE ELSE duo' = duo
    /\ IF x = "sh" THEN TRUE ELSE sh' = sh
    /\ IF x = "bld" THEN TRUE ELSE bld' = bld
    /\ IF x = "ex" THEN TRUE ELSE ex' = ex

\* The joiner's state as one value, so that a step is a function of it.
JS == [joiner |-> joiner, a_suffix |-> a_suffix, b_suffix |-> b_suffix,
       rows_a |-> rows_a, rows_b |-> rows_b, pc |-> pc,
       iter_a |-> iter_a, iter_b |-> iter_b,
       overlapping_columns |-> overlapping_columns,
       matched_rows |-> matched_rows, all_keys |-> all_keys,
       out |-> out, prov |-> prov]

Commit(n) ==
    /\ joiner' = n.joiner
    /\ a_suffix' = n.a_suffix
    /\ b_suffix' = n.b_suffix
    /\ rows_a' = n.rows_a
    /\ rows_b' = n.rows_b
    /\ pc' = n.pc
    /\ iter_a' = n.iter_a
    /\ iter_b' = n.iter_b
    /\ overlapping_columns' = n.overlapping_columns
    /\ matched_rows' = n.matched_rows
    /\ all_keys' = n.all_keys
    /\ out' = n.out
    /\ prov' = n.prov

Load(n) ==
    /\ joiner = n.joiner
    /\ a_suffix = n.a_suffix
    /\ b_suffix = n.b_suffix
    /\ rows_a = n.rows_a
    /\ rows_b = n.rows_b
    /\ pc = n.pc
    /\ iter_a = n.iter_a
    /\ iter_b = n.iter_b
    /\ overlapping_columns = n.overlapping_columns
    /\ matched_rows = n.matched_rows
    /\ all_keys = n.all_keys
    /\ out = n.out
    /\ prov = n.prov

\* Joiner.__init__ and the call joiner(keys, rows_a, rows_b): nothing of the
\* generator body has run yet.
NewJoin(j, sa, sb, A, B) ==
    [joiner |-> j, a_suffix |-> sa, b_suffix |-> sb, rows_a |-> A, rows_b |-> B,
     pc |-> "start", iter_a |-> 0, iter_b |-> 0, overlapping_columns |-> {},
     matched_rows |-> <<>>, all_keys |-> {}, out |-> <<>>, prov |-> <<>>]

\* row_a and row_b: the rows last taken from the iterators.
row_a(s) == s.rows_a[s.iter_a]
row_b(s) == s.rows_b[s.iter_b]
key_a(s) == KeyOf(row_a(s))
key_b(s) == KeyOf(row_b(s))

\* ------------------------------------------------------- shared pieces ---
\* row_a = next(iter_a); row_b = next(iter_b), with StopIteration ending the
\* generator; then overlapping_columns from these two first rows.
FirstRows(s, loop) ==
    IF Len(s.rows_a) = 0 THEN [s EXCEPT !.pc = "done"]
    ELSE IF Len(s.rows_b) = 0 THEN [s EXCEPT !.pc = "done", !.iter_a = 1]
    ELSE [s EXCEPT !.pc = loop, !.iter_a = 1, !.iter_b = 1,
                   !.overlapping_columns =
                       ((DOMAIN s.rows_a[1]) \cap (DOMAIN s.rows_b[1])) \ Range(Keys),
                   !.matched_rows = <<>>]

\* {f"{k}{suffix}" if k in overlapping_columns else k: v for k, v in row.items()}
Renamed(row, suffix, overlapping) ==
    LET name(k) == IF k \in overlapping THEN k \o suffix ELSE k
    IN  [c \in {name(k) : k \in DOMAIN row} |->
            row[CHOOSE k \in DOMAIN row : name(k) = c]]

\* ---------------------------------------------------------- InnerJoiner ---
\* The for loop over matched_rows_b: one joined row per buffered right row.
InnerYield(s) ==
    IF /\ Len(s.matched_rows) > 0
       /\ KeyOf(s.rows_b[s.matched_rows[1]]) = key_a(s)
    THEN [s EXCEPT
            !.out = s.out \o
                [i \in 1..Len(s.matched_rows) |->
                    Merge(Renamed(row_a(s), s.a_suffix, s.overlapping_columns),
                          Renamed(s.rows_b[s.matched_rows[i]], s.b_suffix,
                                  s.overlapping_columns))],
            !.prov = s.prov \o
                [i \in 1..Len(s.matched_rows) |-> <<s.iter_a, s.matched_rows[i]>>]]
    ELSE s

\* row_a = next(iter_a), returning on StopIteration.
InnerNextA(s) ==
    IF s.iter_a < Len(s.rows_a)
    THEN [s EXCEPT !.iter_a = s.iter_a + 1]
    ELSE [s EXCEPT !.pc = "done"]

InnerStartStep(s) == FirstRows(s, "loop1")

\* First loop, branch key_a < key_b.
InnerLessStep(s) == InnerNextA(InnerYield(s))

\* InnerBufferStep with the buffer never started afresh: rows of an earlier
\* right block stay in front of the current one.
InnerBufferStepNoReset(s) ==
    LET buffered == [s EXCEPT !.matched_rows = Append(s.matched_rows, s.iter_b)]
    IN  IF s.iter_b < Len(s.rows_b)
        THEN [buffered EXCEPT !.iter_b = s.iter_b + 1]
        ELSE [buffered EXCEPT !.pc = "loop2"]

\* First loop, branch key_a >= key_b: buffer row_b, then row_b = next(iter_b),
\* leaving the loop on StopIteration.
InnerBufferStep(s) ==
    LET buffered ==
            IF \/ Len(s.matched_rows) = 0
               \/ KeyOf(s.rows_b[s.matched_rows[1]]) = key_b(s)
            THEN [s EXCEPT !.matched_rows = Append(s.matched_rows, s.iter_b)]
            ELSE [s EXCEPT !.matched_rows = <<s.iter_b>>]
    IN  IF s.iter_b < Len(s.rows_b)
        THEN [buffered EXCEPT !.iter_b = s.iter_b + 1]
        ELSE [buffered EXCEPT !.pc = "loop2"]

\* Second loop: the right input is exhausted.
InnerDrainStep(s) == InnerNextA(InnerYield(s))

\* One iteration of the first loop.
InnerLoopStep(s) ==
    IF TupleLt(key_a(s), key_b(s)) THEN InnerLessStep(s)
    ELSE IF TupleGe(key_a(s), key_b(s)) THEN InnerBufferStep(s)
    ELSE s

InnerStep(s) ==
    CASE s.pc = "start" -> InnerStartStep(s)
      [] s.pc = "loop1" -> InnerLoopStep(s)
      [] s.pc = "loop2" -> InnerDrainStep(s)
      [] OTHER -> s

\* ----------------------------------------------------------- LeftJoiner ---
LeftStartStep(s) == FirstRows(s, "scan")

\* One iteration of the inner loop `while key_a >= key_b`.
LeftScanStep(s) ==
    LET buffered ==
            IF key_a(s) = key_b(s)
            THEN [s EXCEPT !.matched_rows = Append(s.matched_rows, s.iter_b)]
            ELSE s
    IN  IF s.iter_b < Len(s.rows_b)
        THEN [buffered EXCEPT !.iter_b = s.iter_b + 1]
        ELSE [buffered EXCEPT !.pc = "emit"]

\* LeftYield with matched_rows_b kept after its rows are yielded.
LeftYieldKeep(s) ==
    IF Len(s.matched_rows) > 0
    THEN [s EXCEPT
            !.out = s.out \o
                [i \in 1..Len(s.matched_rows) |->
                    Merge(row_a(s), s.rows_b[s.matched_rows[i]])],
            !.prov = s.prov \o
                [i \in 1..Len(s.matched_rows) |-> <<s.iter_a, s.matched_rows[i]>>]]
    ELSE [s EXCEPT !.out = Append(s.out, row_a(s)),
                   !.prov = Append(s.prov, <<s.iter_a, 0>>)]

\* if matched_rows_b: ... else: yield row_a
LeftYield(s) ==
    IF Len(s.matched_rows) > 0
    THEN [s EXCEPT
            !.out = s.out \o
                [i \in 1..Len(s.matched_rows) |->
                    Merge(row_a(s), s.rows_b[s.matched_rows[i]])],
            !.prov = s.prov \o
                [i \in 1..Len(s.matched_rows) |-> <<s.iter_a, s.matched_rows[i]>>],
            !.matched_rows = <<>>]
    ELSE [s EXCEPT !.out = Append(s.out, row_a(s)),
                   !.prov = Append(s.prov, <<s.iter_a, 0>>)]

\* LeftNextA with the right input iterated afresh for each left row.
LeftNextARewind(s) ==
    IF s.iter_a < Len(s.rows_a)
    THEN [s EXCEPT !.iter_a = s.iter_a + 1, !.pc = "scan", !.iter_b = 1]
    ELSE [s EXCEPT !.pc = "done"]

\* row_a = next(iter_a), leaving the outer loop on StopIteration.
LeftNextA(s) ==
    IF s.iter_a < Len(s.rows_a)
    THEN [s EXCEPT !.iter_a = s.iter_a + 1, !.pc = "scan"]
    ELSE [s EXCEPT !.pc = "done"]

\* The rest of an outer iteration, after the inner loop.
LeftEmitStep(s) == LeftNextA(LeftYield(s))

LeftStep(s) ==
    CASE s.pc = "start" -> LeftStartStep(s)
      [] s.pc = "scan" ->
            IF TupleGe(key_a(s), key_b(s)) THEN LeftScanStep(s) ELSE LeftEmitStep(s)
      [] s.pc = "emit" -> LeftEmitStep(s)
      [] OTHER -> s

\* ---------------------------------------------------------- RightJoiner ---
RightStartStep(s) == FirstRows(s, "scan")

\* One iteration of the inner loop `while key_b >= key_a`.
RightScanStep(s) ==
    LET buffered ==
            IF key_a(s) = key_b(s)
            THEN [s EXCEPT !.matched_rows = Append(s.matched_rows, s.iter_a)]
            ELSE s
    IN  IF s.iter_a < Len(s.rows_a)
        THEN [buffered EXCEPT !.iter_a = s.iter_a + 1]
        ELSE [buffered EXCEPT !.pc = "emit"]

\* if matched_rows_a: ... else: yield row_b
RightYield(s) ==
    IF Len(s.matched_rows) > 0
    THEN [s EXCEPT
            !.out = s.out \o
                [i \in 1..Len(s.matched_rows) |->
                    Merge(s.rows_a[s.matched_rows[i]], row_b(s))],
            !.prov = s.prov \o
                [i \in 1..Len(s.matched_rows) |-> <<s.matched_rows[i], s.iter_b>>],
            !.matched_rows = <<>>]
    ELSE [s EXCEPT !.out = Append(s.out, row_b(s)),
                   !.prov = Append(s.prov, <<0, s.iter_b>>)]

\* row_b = next(iter_b), leaving the outer loop on StopIteration.
RightNextB(s) ==
    IF s.iter_b < Len(s.rows_b)
    THEN [s EXCEPT !.iter_b = s.iter_b + 1, !.pc = "scan"]
    ELSE [s EXCEPT !.pc = "done"]

RightEmitStep(s) == RightNextB(RightYield(s))

RightStep(s) ==
    CASE s.pc = "start" -> RightStartStep(s)
      [] s.pc = "scan" ->
            IF TupleGe(key_b(s), key_a(s)) THEN RightScanStep(s) ELSE RightEmitStep(s)
      [] s.pc = "emit" -> RightEmitStep(s)
      [] OTHER -> s

\* ---------------------------------------------------------- OuterJoiner ---
KeySet(rows) == {KeyOf(rows[i]) : i \in DOMAIN rows}

\* {tuple(row[k] for k in keys): row for row in rows}: the last row with a
\* key replaces the earlier ones.  The value is the row's position.
KeyDict(rows) ==
    [key \in KeySet(rows) |->
        CHOOSE i \in DOMAIN rows :
            /\ KeyOf(rows[i]) = key
            /\ \A j \in DOMAIN rows : KeyOf(rows[j]) = key => j <= i]

\* dict.get(key, {})
GetRow(rows, key) ==
    IF key \in KeySet(rows) THEN rows[KeyDict(rows)[key]] ELSE <<>>

GetPos(rows, key) ==
    IF key \in KeySet(rows) THEN KeyDict(rows)[key] ELSE 0

\* dict_a, dict_b and all_keys: both inputs are read to their ends.
OuterBuildStep(s) ==
    LET keyset == KeySet(s.rows_a) \cup KeySet(s.rows_b)
    IN  [s EXCEPT !.iter_a = Len(s.rows_a), !.iter_b = Len(s.rows_b),
                  !.all_keys = keyset,
                  !.pc = IF keyset = {} THEN "done" ELSE "loop"]

\* {k: row_a.get(k, row_b.get(k)) for k in set(row_a.keys()) | set(row_b.keys())}
OuterMerged(ra, rb) == [k \in (DOMAIN ra) \cup (DOMAIN rb) |->
                            IF k \in DOMAIN ra THEN ra[k] ELSE rb[k]]

\* One iteration of `for key in all_keys`; a set is iterated in no promised
\* order, so key is any key not visited yet.
OuterEmitStep(s, key) ==
    [s EXCEPT
        !.out = Append(s.out, OuterMerged(GetRow(s.rows_a, key), GetRow(s.rows_b, key))),
        !.prov = Append(s.prov, <<GetPos(s.rows_a, key), GetPos(s.rows_b, key)>>),
        !.all_keys = s.all_keys \ {key},
        !.pc = IF s.all_keys \ {key} = {} THEN "done" ELSE "loop"]

\* ------------------------------------------------- comparisons of keys ---
\* Python compares tuples at the first position where they differ, and None
\* is not ordered with an integer: there <, >= raise TypeError.
CmpTypeError(x, y) ==
    \E i \in 1..Len(x) :
        /\ i <= Len(y)
        /\ \A j \in 1..(i - 1) : x[j] = y[j]
        /\ x[i] # y[i]
        /\ x[i].t = "None" \/ y[i].t = "None"

\* The joiner stands before a comparison of key_a with key_b: the if of
\* InnerJoiner's first loop, the while of LeftJoiner and of RightJoiner.
Compares(s) ==
    \/ s.joiner = "inner" /\ s.pc = "loop1"
    \/ s.joiner \in {"left", "right"} /\ s.pc = "scan"

Raises(s) == Compares(s) /\ CmpTypeError(key_a(s), key_b(s))

\* ------------------------------------------------------------- actions ---
InnerStart ==
    /\ joiner = "inner" /\ pc = "start"
    /\ Commit(InnerStep(JS))
    /\ UNCHANGED <<reduceVars, newVars>>

InnerLess ==
    /\ joiner = "inner" /\ pc = "loop1"
    /\ TupleLt(key_a(JS), key_b(JS))
    /\ ~Raises(JS)
    /\ Commit(InnerStep(JS))
    /\ UNCHANGED <<reduceVars, newVars>>

InnerBuffer ==
    /\ joiner = "inner" /\ pc = "loop1"
    /\ TupleGe(key_a(JS), key_b(JS))
    /\ ~Raises(JS)
    /\ Commit(InnerStep(JS))
    /\ UNCHANGED <<reduceVars, newVars>>

InnerDrain ==
    /\ joiner = "inner" /\ pc = "loop2"
    /\ Commit(InnerStep(JS))
    /\ UNCHANGED <<reduceVars, newVars>>

LeftStart ==
    /\ joiner = "left" /\ pc = "start"
    /\ Commit(LeftStep(JS))
    /\ UNCHANGED <<reduceVars, newVars>>

LeftScan ==
    /\ joiner = "left" /\ pc = "scan"
    /\ TupleGe(key_a(JS), key_b(JS))
    /\ ~Raises(JS)
    /\ Commit(LeftStep(JS))
    /\ UNCHANGED <<reduceVars, newVars>>

LeftEmit ==
    /\ joiner = "left"
    /\ \/ pc = "emit"
       \/ pc = "scan" /\ TupleLt(key_a(JS), key_b(JS))
    /\ ~Raises(JS)
    /\ Commit(LeftStep(JS))
    /\ UNCHANGED <<reduceVars, newVars>>

RightStart ==
    /\ joiner = "right" /\ pc = "start"
    /\ Commit(RightStep(JS))
    /\ UNCHANGED <<reduceVars, newVars>>

RightScan ==
    /\ joiner = "right" /\ pc = "scan"
    /\ TupleGe(key_b(JS), key_a(JS))
    /\ ~Raises(JS)
    /\ Commit(RightStep(JS))
    /\ UNCHANGED <<reduceVars, newVars>>

RightEmit ==
    /\ joiner = "right"
    /\ \/ pc = "emit"
       \/ pc = "scan" /\ TupleLt(key_b(JS), key_a(JS))
    /\ ~Raises(JS)
    /\ Commit(RightStep(JS))
    /\ UNCHANGED <<reduceVars, newVars>>

OuterBuild ==
    /\ joiner = "outer" /\ pc = "start"
    /\ Commit(OuterBuildStep(JS))
    /\ UNCHANGED <<reduceVars, newVars>>

OuterEmit ==
    /\ joiner = "outer" /\ pc = "loop"
    /\ \E key \in all_keys : Commit(OuterEmitStep(JS, key))
    /\ UNCHANGED <<reduceVars, newVars>>

\* A whole run of a deterministic joiner (inner, left, right) from state s:
\* the state in which its generator is exhausted.
JoinStep(s) ==
    CASE s.joiner = "inner" -> InnerStep(s)
      [] s.joiner = "left" -> LeftStep(s)
      [] s.joiner = "right" -> RightStep(s)
      [] OTHER -> s

RECURSIVE RunJoin(_)
RunJoin(s) == IF s.pc = "done" THEN s ELSE RunJoin(JoinStep(s))

\* ------------------------------------------------ Reduce and reducers ---
CountColumn == "n"

HasKeys(row) == \A i \in 1..Len(Keys) : Keys[i] \in DOMAIN row

\* [x.get(val) for val in group_key]: a missing column reads as None.
GetKey(row) ==
    [i \in 1..Len(Keys) |-> IF Keys[i] \in DOMAIN row THEN row[Keys[i]] ELSE None]

\* The key function mapped over a stream.
KeysOf(rows) == [i \in DOMAIN rows |-> KeyOf(rows[i])]
GetKeys(rows) == [i \in DOMAIN rows |-> GetKey(rows[i])]

\* itertools.groupby over a stream whose keys are ks: the group that starts
\* at position p ends at the last position e such that the keys at p..e all
\* equal the key at p.
GroupEnd(ks, p) ==
    CHOOSE e \in p..Len(ks) :
        /\ \A i \in p..e : ks[i] = ks[p]
        /\ e < Len(ks) => ks[e + 1] # ks[p]

\* FirstReducer.__call__: the first row of the group, then break.
FirstReducer(rows) == IF Len(rows) = 0 THEN <<>> ELSE <<rows[1]>>

\* {**dict(zip(group_key, key)), self.column: sum(1 for _ in group)}
CountRow(key, n) ==
    [c \in Range(Keys) \cup {CountColumn} |->
        IF c = CountColumn THEN I(n)
        ELSE key[CHOOSE i \in 1..Len(Keys) : Keys[i] = c]]

\* Count.__call__: groupby over the rows handed in, by x.get; a group is
\* yielded only if all(key).
RECURSIVE CountFrom(_, _)
CountFrom(rows, p) ==
    IF p > Len(rows) THEN <<>>
    ELSE LET e == GroupEnd(GetKeys(rows), p)
             key == GetKey(rows[p])
         IN  (IF \A i \in 1..Len(key) : Truthy(key[i])
              THEN <<CountRow(key, e - p + 1)>>
              ELSE <<>>) \o CountFrom(rows, e + 1)

Count(rows) == CountFrom(rows, 1)

\* self.reducer(tuple(self.keys), group_rows)
CallReducer(r, rows) == IF r = "first" THEN FirstReducer(rows) ELSE Count(rows)

\* for _, group_rows in groupby(rows, ...): the input is exhausted.
ReduceEnd ==
    /\ red_pc = "run"
    /\ red_pos = Len(red_rows)
    /\ red_pc' = "done"
    /\ UNCHANGED <<reducer, red_rows, red_pos, red_calls, red_out>>
    /\ UNCHANGED <<joinVars, newVars>>

\* The key function [row[k] for k in self.keys] on a row without a key
\* column: KeyError, which ends the stream.
ReduceKeyError ==
    /\ red_pc = "run"
    /\ red_pos < Len(red_rows)
    /\ ~HasKeys(red_rows[red_pos + 1])
    /\ red_pc' = "KeyError"
    /\ UNCHANGED <<reducer, red_rows, red_pos, red_calls, red_out>>
    /\ UNCHANGED <<joinVars, newVars>>

\* NextGroupEnd with every row a group of its own.
NextGroupEndSingle == red_pos + 1

\* The rows of the next group: groupby ends it at the first row whose key
\* differs, or whose key cannot be computed.
NextGroupEnd ==
    LET keyed == CHOOSE n \in red_pos..Len(red_rows) :
                    /\ \A i \in (red_pos + 1)..n : HasKeys(red_rows[i])
                    /\ n < Len(red_rows) => ~HasKeys(red_rows[n + 1])
    IN  red_pos + GroupEnd(KeysOf(SubSeq(red_rows, red_pos + 1, keyed)), 1)

\* One iteration of Reduce's loop: the reducer is called with the next group
\* and its rows are yielded.  Count reads its group to the end before it
\* yields, so the key function has already run on the row after the group.
ReduceGroup ==
    /\ red_pc = "run"
    /\ red_pos < Len(red_rows)
    /\ HasKeys(red_rows[red_pos + 1])
    /\ LET e == NextGroupEnd
           group == SubSeq(red_rows, red_pos + 1, e)
       IN  /\ red_calls' = Append(red_calls, group)
           /\ red_pos' = e
           /\ IF /\ reducer = "count"
                 /\ e < Len(red_rows)
                 /\ ~HasKeys(red_rows[e + 1])
              THEN red_pc' = "KeyError" /\ red_out' = red_out
              ELSE red_pc' = red_pc /\ red_out' = red_out \o CallReducer(reducer, group)
    /\ UNCHANGED <<reducer, red_rows>>
    /\ UNCHANGED <<joinVars, newVars>>

\* ------------------------------------------------------- specifications ---
JoinIdle ==
    /\ joiner = "none" /\ a_suffix = "_1" /\ b_suffix = "_2"
    /\ rows_a = <<>> /\ rows_b = <<>> /\ pc = "done"
    /\ iter_a = 0 /\ iter_b = 0 /\ overlapping_columns = {}
    /\ matched_rows = <<>> /\ all_keys = {} /\ out = <<>> /\ prov = <<>>

ReduceIdle ==
    /\ reducer = "none" /\ red_rows = <<>> /\ red_pc = "done"
    /\ red_pos = 0 /\ red_calls = <<>> /\ red_out = <<>>

Joiners == {"inner", "left", "right", "outer"}

InitJoin ==
    /\ \E j \in Joiners, A \in SortedSeqs(LeftRows), B \in SortedSeqs(RightRows) :
          Load(NewJoin(j, "_1", "_2", A, B))
    /\ ReduceIdle
    /\ OthersIdle("join")

NextJoin ==
    \/ InnerStart
    \/ InnerLess
    \/ InnerBuffer
    \/ InnerDrain
    \/ LeftStart
    \/ LeftScan
    \/ LeftEmit
    \/ RightStart
    \/ RightScan
    \/ RightEmit
    \/ OuterBuild
    \/ OuterEmit

SpecJoin == InitJoin /\ [][NextJoin]_vars

\* Rows for Reduce: column "k" missing, None, 0 or a positive integer.
ReduceRows ==
    LET vals == {[v |-> I(x)] : x \in 1..2}
    IN  vals \cup {Merge(r, [k |-> key]) :
                      r \in vals, key \in {None} \cup {I(x) : x \in 0..MaxKey}}

InitReduce ==
    /\ reducer \in {"first", "count"}
    /\ red_rows \in SeqsUpTo(ReduceRows, MaxRed)
    /\ red_pc = "run" /\ red_pos = 0 /\ red_calls = <<>> /\ red_out = <<>>
    /\ JoinIdle
    /\ OthersIdle("reduce")

NextReduce ==
    \/ ReduceEnd
    \/ ReduceKeyError
    \/ ReduceGroup

SpecReduce == InitReduce /\ [][NextReduce]_vars

\* ------------------------------------------------------------- claims ---
\* The pairs of a left and a right row with equal key tuples.
MatchPairs ==
    {p \in (DOMAIN rows_a) \X (DOMAIN rows_b) :
        KeyOf(rows_a[p[1]]) = KeyOf(rows_b[p[2]])}

LeftOnly == {i \in DOMAIN rows_a : \A j \in DOMAIN rows_b : <<i, j>> \notin MatchPairs}
RightOnly == {j \in DOMAIN rows_b : \A i \in DOMAIN rows_a : <<i, j>> \notin MatchPairs}

\* How many yielded rows are from the pair p (0 stands for no row).
Times(p) == Cardinality({n \in DOMAIN prov : prov[n] = p})

SeqBag(s) == [x \in Range(s) |-> Cardinality({i \in DOMAIN s : s[i] = x})]

\* The joined row the column-collision rule asks for.
ExpectedJoined(a, b, sa, sb) ==
    LET C == ((DOMAIN a) \cap (DOMAIN b)) \ Range(Keys)
        plain == ((DOMAIN a) \cup (DOMAIN b)) \ C
    IN  [col \in plain \cup {c \o sa : c \in C} \cup {c \o sb : c \in C} |->
            IF col \in plain
            THEN (IF col \in DOMAIN a THEN a[col] ELSE b[col])
            ELSE IF \E c \in C : col = c \o sa
            THEN a[CHOOSE c \in C : col = c \o sa]
            ELSE b[CHOOSE c \in C : col = c \o sb]]

\* C1: on sorted inputs InnerJoiner yields exactly one row for every pair of
\* a left and a right row with equal key tuples, each carrying the pair's key
\* and both rows' own columns, and no other row; with an empty input it
\* yields nothing.
C1_InnerJoinPairs ==
    (joiner = "inner" /\ pc = "done") =>
        /\ Len(out) = Len(prov)
        /\ \A p \in MatchPairs : Times(p) = 1
        /\ \A n \in DOMAIN prov :
              /\ prov[n] \in MatchPairs
              /\ KeyOf(out[n]) = KeyOf(rows_a[prov[n][1]])
              /\ {"a", "b"} \subseteq DOMAIN out[n]
        /\ (rows_a = <<>> \/ rows_b = <<>>) => out = <<>>

\* A finished inner join with a block of two rows on both sides and a row
\* without a partner.
C1_Witness ==
    /\ joiner = "inner" /\ pc = "done"
    /\ \E i \in DOMAIN rows_a, j \in DOMAIN rows_b :
          /\ {<<i, j>>, <<i + 1, j>>, <<i, j + 1>>, <<i + 1, j + 1>>} \subseteq MatchPairs
    /\ LeftOnly # {}
    /\ Len(out) = 4

\* C2: with a non-empty right input LeftJoiner yields, for every left row,
\* one row per right row with its key tuple, or the left row alone when there
\* is none; no right-only row is yielded.
C2_LeftJoinRows ==
    (joiner = "left" /\ pc = "done" /\ rows_b # <<>>) =>
        /\ \A p \in MatchPairs : Times(p) = 1
        /\ \A i \in LeftOnly : Times(<<i, 0>>) = 1
        /\ \A n \in DOMAIN prov :
              \/ prov[n] \in MatchPairs
              \/ prov[n][2] = 0 /\ prov[n][1] \in LeftOnly /\ out[n] = rows_a[prov[n][1]]

\* C3: LeftJoiner with an empty right input yields the left rows, and
\* RightJoiner with an empty left input yields the right rows, each once and
\* unchanged.
C3_EmptySide ==
    /\ (joiner = "left" /\ pc = "done" /\ rows_b = <<>>) => out = rows_a
    /\ (joiner = "right" /\ pc = "done" /\ rows_a = <<>>) => out = rows_b

\* C4: every row InnerJoiner yields from rows a and b has the columns both
\* have (the keys excepted) twice, suffixed, and every other column under its
\* own name.
C4_InnerColumns ==
    joiner = "inner" =>
        \A n \in DOMAIN out :
            out[n] = ExpectedJoined(rows_a[prov[n][1]], rows_b[prov[n][2]],
                                    a_suffix, b_suffix)

\* C5: in every row LeftJoiner or RightJoiner yields from a matched pair, a
\* non-key column of both rows appears with both suffixes, holding the left
\* and the right value.
C5_MatchedColumnsKept ==
    joiner \in {"left", "right"} =>
        \A n \in DOMAIN out :
            (prov[n][1] # 0 /\ prov[n][2] # 0) =>
                LET a == rows_a[prov[n][1]]
                    b == rows_b[prov[n][2]]
                IN  \A c \in ((DOMAIN a) \cap (DOMAIN b)) \ Range(Keys) :
                        /\ {c \o a_suffix, c \o b_suffix} \subseteq DOMAIN out[n]
                        /\ out[n][c \o a_suffix] = a[c]
                        /\ out[n][c \o b_suffix] = b[c]

\* C6: OuterJoiner yields one row for every pair of rows with equal key
\* tuples and one row for every row without a partner.
C6_OuterJoinRows ==
    (joiner = "outer" /\ pc = "done") =>
        /\ \A p \in MatchPairs : Times(p) = 1
        /\ \A i \in LeftOnly : Times(<<i, 0>>) = 1
        /\ \A j \in RightOnly : Times(<<0, j>>) = 1

\* C7: LeftJoiner on (A, B) yields the row sequence of RightJoiner on (B, A)
\* with the two suffixes swapped.
C7_LeftRightDuality ==
    (joiner = "left" /\ pc = "done") =>
        out = RunJoin(NewJoin("right", b_suffix, a_suffix, rows_b, rows_a)).out

\* C8: InnerJoiner on (A, B) and on (B, A) with the suffixes swapped yield
\* the same rows with the same multiplicities.
C8_InnerCommutes ==
    (joiner = "inner" /\ pc = "done") =>
        SeqBag(out) =
            SeqBag(RunJoin(NewJoin("inner", b_suffix, a_suffix, rows_b, rows_a)).out)

\* The positions at which a maximal run of equal keys starts.
RunStarts(ks) == {i \in DOMAIN ks : i = 1 \/ ks[i] # ks[i - 1]}

\* The maximal runs of rows with equal keys ks, in stream order.
RunsOf(rows, ks) ==
    LET starts == RunStarts(ks)
        nth(n) == CHOOSE s \in starts : Cardinality({x \in starts : x <= s}) = n
        last(s) == IF \E x \in starts : x > s
                   THEN (CHOOSE x \in starts :
                            x > s /\ \A y \in starts : y > s => x <= y) - 1
                   ELSE Len(rows)
    IN  [n \in 1..Cardinality(starts) |-> SubSeq(rows, nth(n), last(nth(n)))]

RECURSIVE Flatten(_)
Flatten(ss) == IF Len(ss) = 0 THEN <<>> ELSE Head(ss) \o Flatten(Tail(ss))

\* C9: a finished Reduce has called the reducer once for each maximal run of
\* rows with equal key tuple, with the rows of the run in order, and has
\* yielded the reducers' outputs in the order of the runs; FirstReducer's
\* output is the first row of every run.
C9_ReduceRuns ==
    red_pc = "done" =>
        LET runs == RunsOf(red_rows, KeysOf(red_rows))
        IN  /\ red_calls = runs
            /\ red_out = Flatten([n \in DOMAIN runs |-> CallReducer(reducer, runs[n])])
            /\ reducer = "first" => red_out = [n \in DOMAIN runs |-> runs[n][1]]

\* A finished Reduce with FirstReducer over two runs, one of them of two
\* different rows.
C9_Witness ==
    /\ red_pc = "done" /\ reducer = "first"
    /\ Len(red_calls) = 2
    /\ \E n \in DOMAIN red_calls :
          Len(red_calls[n]) = 2 /\ red_calls[n][1] # red_calls[n][2]

\* C10: Reduce with Count never fails on a null or missing key value; it
\* yields, for every group, the key columns and the size of the group when
\* all key values are truthy, and nothing for a group with a null or missing
\* key value (streams with a key value 0, falsy but not null, are left open).
C10_CountSuppresses ==
    reducer = "count" =>
        /\ red_pc # "KeyError"
        /\ (red_pc = "done" /\ \A i \in DOMAIN red_rows : GetKey(red_rows[i])[1] # I(0)) =>
              LET runs == RunsOf(red_rows, GetKeys(red_rows))
              IN  red_out = Flatten([n \in DOMAIN runs |->
                        IF \A i \in 1..Len(Keys) :
                              /\ Keys[i] \in DOMAIN runs[n][1]
                              /\ runs[n][1][Keys[i]] # None
                        THEN <<[c \in Range(Keys) \cup {CountColumn} |->
                                  IF c = CountColumn THEN I(Len(runs[n]))
                                  ELSE runs[n][1][c]]>>
                        ELSE <<>>])

\* A step of component x leaves the joiner, Reduce and the others alone.
Only(x) == UNCHANGED <<joinVars, reduceVars>> /\ OthersUnchanged(x)

\* =========================================================================
\* Graph.sort: the external merge sort (compgraph/external_sort.py is not
\* among the sources; the algorithm is the documented one: chunks of at most
\* B rows, each sorted stably and kept as a run, then a k-way merge of the
\* runs through a heap keyed by the key tuple and the run index).
\* =========================================================================
MaxChunk == 2

SortKeys == {<<>>, <<"k">>, <<"k", "a">>}

SortRows == {[k |-> I(k), a |-> I(a)] : k \in 1..MaxKey, a \in {1, 2}}

\* tuple(row[k] for k in keys)
KeyTuple(row, keys) == [i \in 1..Len(keys) |-> row[keys[i]]]

\* The place of a row put into a sorted chunk: behind every row that is not
\* greater (a stable sort).
InsertRow(sorted, row, keys) ==
    LET n == Cardinality({i \in DOMAIN sorted :
                 ~TupleLt(KeyTuple(row, keys), KeyTuple(sorted[i], keys))})
    IN  SubSeq(sorted, 1, n) \o <<row>> \o SubSeq(sorted, n + 1, Len(sorted))

RECURSIVE StableSort(_, _)
StableSort(rows, keys) ==
    IF rows = <<>> THEN <<>>
    ELSE InsertRow(StableSort(SubSeq(rows, 1, Len(rows) - 1), keys),
                   rows[Len(rows)], keys)

\* Graph.sort(keys) over an upstream that yields rows: an ExternalSort(keys)
\* that has read nothing yet.  B is the chunk size.
GraphSort(keys, B, rows) ==
    [pc |-> "read", keys |-> keys, B |-> B, input |-> rows, pos |-> 0,
     chunk |-> <<>>, runs |-> <<>>, files |-> 0, heads |-> <<>>, out |-> <<>>]

\* The runs that still have a row to give.
LiveRuns(s) == {r \in DOMAIN s.runs : s.heads[r] < Len(s.runs[r])}

HeadRow(s, r) == s.runs[r][s.heads[r] + 1]

\* The top of the heap: the least (key tuple, run index).
HeapTopFirstRun(s) == CHOOSE r \in LiveRuns(s) : \A q \in LiveRuns(s) : r <= q

HeapTop(s) ==
    CHOOSE r \in LiveRuns(s) : \A q \in LiveRuns(s) \ {r} :
        LET kr == KeyTuple(HeadRow(s, r), s.keys)
            kq == KeyTuple(HeadRow(s, q), s.keys)
        IN  TupleLt(kr, kq) \/ (~TupleLt(kq, kr) /\ r < q)

\* One more row is read into the chunk; a full chunk is sorted and spilled.
SortRead ==
    /\ srt.pc = "read" /\ srt.pos < Len(srt.input)
    /\ LET chunk == Append(srt.chunk, srt.input[srt.pos + 1])
       IN  srt' = IF Len(chunk) = srt.B
                  THEN [srt EXCEPT !.pos = @ + 1, !.chunk = <<>>,
                                   !.runs = Append(@, StableSort(chunk, srt.keys)),
                                   !.files = @ + 1]
                  ELSE [srt EXCEPT !.pos = @ + 1, !.chunk = chunk]
    /\ Only("srt")

\* The input is exhausted: the rest is sorted (spilled when a run was spilled
\* before, in memory otherwise) and the merge begins.
SortExhausted ==
    /\ srt.pc = "read" /\ srt.pos = Len(srt.input)
    /\ LET runs == IF srt.chunk = <<>> THEN srt.runs
                   ELSE Append(srt.runs, StableSort(srt.chunk, srt.keys))
       IN  srt' = [srt EXCEPT !.pc = "merge", !.chunk = <<>>, !.runs = runs,
                              !.files = IF @ > 0 /\ srt.chunk # <<>> THEN @ + 1 ELSE @,
                              !.heads = [r \in DOMAIN runs |-> 0]]
    /\ Only("srt")

\* The consumer pulls a row: the top of the heap.
SortEmit ==
    /\ srt.pc = "merge" /\ LiveRuns(srt) # {}
    /\ LET r == HeapTop(srt)
       IN  srt' = [srt EXCEPT !.out = Append(@, HeadRow(srt, r)),
                              !.heads[r] = @ + 1]
    /\ Only("srt")

\* The stream is complete: the run files are deleted.
SortComplete ==
    /\ srt.pc = "merge" /\ LiveRuns(srt) = {}
    /\ srt' = [srt EXCEPT !.pc = "done", !.files = 0]
    /\ Only("srt")

InitSort ==
    /\ \E keys \in SortKeys, B \in 1..MaxChunk, rows \in SeqsUpTo(SortRows, MaxLen) :
          srt = GraphSort(keys, B, rows)
    /\ JoinIdle /\ ReduceIdle /\ OthersIdle("srt")

NextSort == SortRead \/ SortExhausted \/ SortEmit \/ SortComplete

SpecSort == InitSort /\ [][NextSort]_vars

\* C11: the output of graph.sort(keys) is a permutation of its input and is
\* non-decreasing in the key tuple.
C11_SortPermutation ==
    srt.pc = "done" =>
        /\ SeqBag(srt.out) = SeqBag(srt.input)
        /\ \A i \in 1..(Len(srt.out) - 1) :
              ~TupleLt(KeyTuple(srt.out[i + 1], srt.keys),
                       KeyTuple(srt.out[i], srt.keys))

\* A finished sort by two columns that merged three runs and moved a row
\* forward.
C11_Witness ==
    /\ srt.pc = "done" /\ Len(srt.keys) = 2
    /\ Len(srt.runs) = 3
    /\ srt.out # srt.input

\* =========================================================================
\* Split: a mapper that yields one row per piece of a text column.  A text
\* is a sequence of characters; a separator is the class of characters its
\* regular expression matches (the default r"\s" and "," are one-character
\* classes, so every match is one character long).
\* =========================================================================
MaxText == 4

S(s) == [t |-> "str", v |-> s]

SplitColumn == "text"

Whitespace == {" "}

SplitChars == {"a", "b", " ", ","}

\* separator if separator is not None else r"\s"
Separators == {Whitespace, {","}}

Texts == SeqsUpTo(SplitChars, MaxText)

\* Rows with the column and rows without it.
SplitRows ==
    {[c \in {"doc", SplitColumn} |-> IF c = "doc" THEN I(1) ELSE S(s)] : s \in Texts}
      \cup {[doc |-> I(1)]}

\* str.strip(): without the leading and the trailing whitespace.
Strip(s) ==
    LET inner == {i \in DOMAIN s : s[i] \notin Whitespace}
    IN  IF inner = {} THEN <<>>
        ELSE SubSeq(s, CHOOSE i \in inner : \A j \in inner : i <= j,
                       CHOOSE i \in inner : \A j \in inner : j <= i)

\* s[lo:hi] with 0-based bounds.
Slice(s, lo, hi) == SubSeq(s, lo + 1, hi)

\* pattern.finditer: the matches at or after position p (0-based starts).
MatchesFrom(s, sep, p) == {i \in p..(Len(s) - 1) : s[i + 1] \in sep}

\* {**row, self.column: piece.strip()}
Piece(row, piece) == Merge(row, [c \in {SplitColumn} |-> S(Strip(piece))])

NewSplit(sep, row) ==
    [pc |-> "call", separator |-> sep, row |-> row, last_end |-> 0,
     scan |-> 0, out |-> <<>>]

\* if self.column not in row: yield row; return
SplitMissing ==
    /\ spl.pc = "call" /\ SplitColumn \notin DOMAIN spl.row
    /\ spl' = [spl EXCEPT !.pc = "done", !.out = <<spl.row>>]
    /\ Only("spl")

\* One iteration of the loop over the matches.
SplitMatch ==
    /\ spl.pc = "call" /\ SplitColumn \in DOMAIN spl.row
    /\ LET text == spl.row[SplitColumn].v
           ms == MatchesFrom(text, spl.separator, spl.scan)
       IN  /\ ms # {}
           /\ LET start == CHOOSE i \in ms : \A j \in ms : i <= j
              IN  spl' = [spl EXCEPT
                     !.out = IF start # 0
                             THEN Append(@, Piece(spl.row, Slice(text, spl.last_end, start)))
                             ELSE @,
                     !.last_end = start + 1,
                     !.scan = start + 1]
    /\ Only("spl")

\* No match is left: the rest of the text, when there is one.
SplitRest ==
    /\ spl.pc = "call" /\ SplitColumn \in DOMAIN spl.row
    /\ LET text == spl.row[SplitColumn].v
       IN  /\ MatchesFrom(text, spl.separator, spl.scan) = {}
           /\ spl' = [spl EXCEPT
                 !.pc = "done",
                 !.out = IF spl.last_end < Len(text)
                         THEN Append(@, Piece(spl.row, Slice(text, spl.last_end, Len(text))))
                         ELSE @]
    /\ Only("spl")

InitSplit ==
    /\ \E sep \in Separators, row \in SplitRows : spl = NewSplit(sep, row)
    /\ JoinIdle /\ ReduceIdle /\ OthersIdle("spl")

NextSplit == SplitMissing \/ SplitMatch \/ SplitRest

SpecSplit == InitSplit /\ [][NextSplit]_vars

\* The pieces of a text between the separator characters.
RECURSIVE Segments(_, _)
Segments(s, sep) ==
    LET ms == {i \in DOMAIN s : s[i] \in sep}
    IN  IF ms = {} THEN <<s>>
        ELSE LET i == CHOOSE i \in ms : \A j \in ms : i <= j
             IN  <<SubSeq(s, 1, i - 1)>> \o Segments(SubSeq(s, i + 1, Len(s)), sep)

\* The non-empty tokens of a text, trimmed, in order.
Tokens(s, sep) == SelectSeq([n \in DOMAIN Segments(s, sep) |-> Strip(Segments(s, sep)[n])],
                            LAMBDA tok : tok # <<>>)

\* C12: Split yields one row per non-empty token of the column, in order,
\* each the row with the column replaced by the token; no yielded row has
\* the empty string in the column, wherever the separators are; a text of
\* one token yields a row equal to the input row.
C12_SplitTokens ==
    (spl.pc = "done" /\ SplitColumn \in DOMAIN spl.row) =>
        LET text == spl.row[SplitColumn].v
            toks == Tokens(text, spl.separator)
        IN  /\ spl.out = [n \in DOMAIN toks |->
                             Merge(spl.row, [c \in {SplitColumn} |-> S(toks[n])])]
            /\ \A n \in DOMAIN spl.out : spl.out[n][SplitColumn] # S(<<>>)
            /\ toks = <<text>> => spl.out = <<spl.row>>

\* =========================================================================
\* TopN: a reducer that yields the n rows of a group with the largest value
\* of a column.  The rows it yields are the rows it was given (positions in
\* the group), not copies.
\* =========================================================================
MaxTop == 4

column_max == "x"

TopRows == {[c \in {column_max} |-> I(v)] : v \in 0..MaxKey}

\* The place of position p in a list of positions sorted by value,
\* descending: behind every position whose value is not smaller.
InsertDescFront(sorted, p, rows) ==
    LET m == Cardinality({i \in DOMAIN sorted :
                 rows[sorted[i]][column_max].v > rows[p][column_max].v})
    IN  SubSeq(sorted, 1, m) \o <<p>> \o SubSeq(sorted, m + 1, Len(sorted))

InsertDesc(sorted, p, rows) ==
    LET m == Cardinality({i \in DOMAIN sorted :
                 rows[sorted[i]][column_max].v >= rows[p][column_max].v})
    IN  SubSeq(sorted, 1, m) \o <<p>> \o SubSeq(sorted, m + 1, Len(sorted))

\* sorted(rows, key=lambda x: x[column_max], reverse=True), as positions.
RECURSIVE SortedDesc(_, _)
SortedDesc(rows, m) ==
    IF m = 0 THEN <<>> ELSE InsertDesc(SortedDesc(rows, m - 1), m, rows)

\* heapq.nlargest(n, rows, key=...): the first n of the rows sorted by the
\* key, descending.
nlargest(n, rows) ==
    LET all == SortedDesc(rows, Len(rows))
    IN  SubSeq(all, 1, IF n < Len(all) THEN n ELSE Len(all))

NewTopN(n, rows) ==
    [pc |-> "call", n |-> n, rows |-> rows, top_rows |-> <<>>, out |-> <<>>]

\* top_rows = heapq.nlargest(...): the whole group is consumed.
TopNCall ==
    /\ top.pc = "call"
    /\ top' = [top EXCEPT !.pc = "yield", !.top_rows = nlargest(top.n, top.rows)]
    /\ Only("top")

\* for row in top_rows: yield row
TopNYield ==
    /\ top.pc = "yield" /\ Len(top.out) < Len(top.top_rows)
    /\ top' = [top EXCEPT !.out = Append(@, top.top_rows[Len(top.out) + 1])]
    /\ Only("top")

TopNReturn ==
    /\ top.pc = "yield" /\ Len(top.out) = Len(top.top_rows)
    /\ top' = [top EXCEPT !.pc = "done"]
    /\ Only("top")

InitTopN ==
    /\ \E n \in 0..(MaxTop + 1), rows \in SeqsUpTo(TopRows, MaxTop) :
          top = NewTopN(n, rows)
    /\ JoinIdle /\ ReduceIdle /\ OthersIdle("top")

NextTopN == TopNCall \/ TopNYield \/ TopNReturn

SpecTopN == InitTopN /\ [][NextTopN]_vars

\* C13: TopN yields min(n, size of the group) rows of the group, each once
\* and as it was given; the value of every yielded row is at least the value
\* of every row not yielded; of rows with equal values the earlier one is
\* preferred, and is yielded first; values are yielded in descending order.
C13_TopNRows ==
    top.pc = "done" =>
        LET val(p) == top.rows[p][column_max].v
            emitted == Range(top.out)
            rest == DOMAIN top.rows \ emitted
        IN  /\ Len(top.out) = IF top.n < Len(top.rows) THEN top.n ELSE Len(top.rows)
            /\ emitted \subseteq DOMAIN top.rows
            /\ Cardinality(emitted) = Len(top.out)
            /\ \A e \in emitted, u \in rest :
                  val(e) > val(u) \/ (val(e) = val(u) /\ e < u)
            /\ \A i \in 1..(Len(top.out) - 1) :
                  \/ val(top.out[i]) > val(top.out[i + 1])
                  \/ val(top.out[i]) = val(top.out[i + 1]) /\ top.out[i] < top.out[i + 1]

\* A finished TopN that left out a row equal in value to a yielded one and
\* yielded two rows of equal value.
C13_Witness ==
    /\ top.pc = "done"
    /\ \E e \in Range(top.out), u \in DOMAIN top.rows \ Range(top.out) :
          top.rows[e] = top.rows[u]
    /\ \E i \in 1..(Len(top.out) - 1) : top.rows[top.out[i]] = top.rows[top.out[i + 1]]
    /\ \E i \in 1..(Len(top.out) - 1) : top.out[i] > top.out[i + 1]

\* =========================================================================
\* Two runs of one join graph over the same source rows, one after the
\* other, each in a Python process of its own or both in one.  A process
\* has a hash seed (PYTHONHASHSEED, random unless set); the order in which
\* a set of tuples of strings is iterated is a function of the seed and of
\* the set.  A seed is modelled by the order it gives to the key values.
\* =========================================================================
MaxDuo == 2

\* String key values: "a", "aa", ...
StrKey(k) == S([i \in 1..k |-> "a"])

StrRow(k, side) == [c \in {"k", side} |-> IF c = "k" THEN StrKey(k) ELSE I(1)]

\* A hash seed: the rank it gives to every key value.
HashSeeds == {h \in [1..MaxKey -> 1..MaxKey] : \A i, j \in 1..MaxKey : h[i] = h[j] => i = j}

\* The first key of `for key in all_keys` in a process with seed h.
FirstKey(all, h) ==
    CHOOSE key \in all : \A other \in all : h[Len(key[1].v)] <= h[Len(other[1].v)]

NewDuo(j, A, B, h1, h2) ==
    [pc |-> "run", seed |-> <<h1, h2>>,
     r |-> <<NewJoin(j, "_1", "_2", A, B), NewJoin(j, "_1", "_2", A, B)>>]

\* The run that is under way: the second begins when the first is done.
DuoCur == IF duo.r[1].pc # "done" THEN 1 ELSE 2

\* A step of InnerJoiner, LeftJoiner or RightJoiner in the current run.
DuoMergeStep ==
    /\ duo.pc = "run" /\ duo.r[DuoCur].pc # "done"
    /\ duo.r[DuoCur].joiner # "outer"
    /\ duo' = [duo EXCEPT !.r[DuoCur] = JoinStep(@)]
    /\ Only("duo")

DuoOuterBuild ==
    /\ duo.pc = "run" /\ duo.r[DuoCur].pc = "start"
    /\ duo.r[DuoCur].joiner = "outer"
    /\ duo' = [duo EXCEPT !.r[DuoCur] = OuterBuildStep(@)]
    /\ Only("duo")

DuoOuterEmit ==
    /\ duo.pc = "run" /\ duo.r[DuoCur].pc = "loop"
    /\ duo.r[DuoCur].joiner = "outer"
    /\ duo' = [duo EXCEPT !.r[DuoCur] =
                  OuterEmitStep(@, FirstKey(duo.r[DuoCur].all_keys, duo.seed[DuoCur]))]
    /\ Only("duo")

\* Both runs are over.
DuoEnd ==
    /\ duo.pc = "run" /\ duo.r[1].pc = "done" /\ duo.r[2].pc = "done"
    /\ duo' = [duo EXCEPT !.pc = "done"]
    /\ Only("duo")

InitDuo ==
    /\ \/ \E j \in Joiners \ {"outer"} :
          \E A \in {a \in SeqsUpTo({SideRow(k, "a") : k \in 1..MaxKey}, MaxDuo) : IsSorted(a)},
             B \in {b \in SeqsUpTo({SideRow(k, "b") : k \in 1..MaxKey}, MaxDuo) : IsSorted(b)} :
              \E h \in HashSeeds : duo = NewDuo(j, A, B, h, h)
       \/ \E A \in SeqsUpTo({StrRow(k, "a") : k \in 1..MaxKey}, MaxDuo),
             B \in SeqsUpTo({StrRow(k, "b") : k \in 1..MaxKey}, MaxDuo) :
              \E h1, h2 \in HashSeeds : duo = NewDuo("outer", A, B, h1, h2)
    /\ JoinIdle /\ ReduceIdle /\ OthersIdle("duo")

NextDuo == DuoMergeStep \/ DuoOuterBuild \/ DuoOuterEmit \/ DuoEnd

SpecDuo == InitDuo /\ [][NextDuo]_vars

\* C14: two runs of the same graph over the same source rows yield the same
\* rows in the same order, also when the graph joins with OuterJoiner.
C14_SameOutput ==
    duo.pc = "done" => duo.r[1].out = duo.r[2].out

\* =========================================================================
\* Two runs of the graph  graph_from_iter(name).map(mapper)  under way at
\* the same time, pulled in any order.  The source factory hands out
\* iterators over one list of row objects: heap[p] is the present value of
\* the p-th row object.  The mappers FilterPunctuation, LowerCase and
\* BinaryOperation assign to a column of the row they are given and yield
\* that row object.
\* =========================================================================
MaxSh == 2

Punctuation == {"!", ","}

ShTexts == {<<"a">>, <<"A">>, <<"A", "!">>, <<",", "b">>}

\* str.lower()
Lower(s) == [i \in DOMAIN s |-> CASE s[i] = "A" -> "a" [] s[i] = "B" -> "b" [] OTHER -> s[i]]

\* str.translate(str.maketrans("", "", string.punctuation))
NoPunctuation(s) == SelectSeq(s, LAMBDA c : c \notin Punctuation)

\* The operations given to BinaryOperation: row -> row["x"] + 1, stored in
\* column "x" or in column "y".
BinaryColumns == {"x", "y"}

ShMappers == {[name |-> "FilterPunctuation", column |-> "text"],
              [name |-> "LowerCase", column |-> "text"]}
                \cup {[name |-> "BinaryOperation", column |-> c] : c \in BinaryColumns}

ShRows(mapper) ==
    IF mapper.name = "BinaryOperation"
    THEN {[x |-> I(n)] : n \in 1..MaxKey}
    ELSE {[text |-> S(s)] : s \in ShTexts}

\* The value of the row after mapper.__call__(row).
Mapped(mapper, row) ==
    CASE mapper.name = "FilterPunctuation" ->
            [row EXCEPT ![mapper.column] = S(NoPunctuation(@.v))]
      [] mapper.name = "LowerCase" ->
            [row EXCEPT ![mapper.column] = S(Lower(@.v))]
      [] mapper.name = "BinaryOperation" ->
            Merge(row, [c \in {mapper.column} |-> I(row["x"].v + 1)])

NewShared(mapper, rows) ==
    [pc |-> "run", mapper |-> mapper, source |-> rows, heap |-> rows,
     pos |-> <<0, 0>>, fin |-> <<FALSE, FALSE>>,
     delivered |-> << <<>>, <<>> >>, snap |-> << <<>>, <<>> >>]

\* Run i is pulled: its source iterator gives the next row object, the
\* mapper changes it in place and the same object is delivered.
ShPull(i) ==
    LET p == sh.pos[i] + 1
        row == Mapped(sh.mapper, sh.heap[p])
    IN  [sh EXCEPT !.heap[p] = row, !.pos[i] = p,
                   !.delivered[i] = Append(@, p),
                   !.snap[i] = Append(@, row)]

ShCanPull(i) == sh.pc = "run" /\ ~sh.fin[i] /\ sh.pos[i] < Len(sh.heap)

ShFilterPunctuation ==
    \E i \in 1..2 :
        /\ ShCanPull(i) /\ sh.mapper.name = "FilterPunctuation"
        /\ sh' = ShPull(i)
        /\ Only("sh")

ShLowerCase ==
    \E i \in 1..2 :
        /\ ShCanPull(i) /\ sh.mapper.name = "LowerCase"
        /\ sh' = ShPull(i)
        /\ Only("sh")

ShBinaryOperation ==
    \E i \in 1..2 :
        /\ ShCanPull(i) /\ sh.mapper.name = "BinaryOperation"
        /\ sh' = ShPull(i)
        /\ Only("sh")

\* Run i is pulled and its source iterator is exhausted.
ShExhausted ==
    \E i \in 1..2 :
        /\ sh.pc = "run" /\ ~sh.fin[i] /\ sh.pos[i] = Len(sh.heap)
        /\ sh' = [sh EXCEPT !.fin[i] = TRUE]
        /\ Only("sh")

InitShared ==
    /\ \E mapper \in ShMappers :
          \E rows \in SeqsUpTo(ShRows(mapper), MaxSh) : sh = NewShared(mapper, rows)
    /\ JoinIdle /\ ReduceIdle /\ OthersIdle("sh")

NextShared == ShFilterPunctuation \/ ShLowerCase \/ ShBinaryOperation \/ ShExhausted

SpecShared == InitShared /\ [][NextShared]_vars

\* C15: of two runs of one graph under way at the same time, each yields
\* the rows it would yield alone, and a row that was delivered is not
\* changed afterwards, also when the source factories give iterators over
\* the same row objects and the mapper works in place.
C15_RunsIsolated ==
    sh.pc = "run" =>
        \A i \in 1..2 :
            /\ sh.snap[i] = [n \in 1..Len(sh.snap[i]) |-> Mapped(sh.mapper, sh.source[n])]
            /\ \A n \in 1..Len(sh.delivered[i]) :
                  sh.heap[sh.delivered[i][n]] = sh.snap[i][n]

\* =========================================================================
\* The graph builder (compgraph/graph.py).  A Graph object is a record of
\* its operation and its tuple of upstream Graph objects; nodes[g] is the
\* present value of the g-th Graph object made, and a reference to a Graph
\* object is its index.
\* =========================================================================
MaxNodes == 3

Op(kind, arg) == [kind |-> kind, arg |-> arg]

\* self.operation = None
NoOperation == Op("None", "")

SourceNames == {"A", "B"}

FileNames == {"f"}

Mappers == {"DummyMapper", "Filter"}

BuildJoiners == {"inner", "left", "right"}

\* Graph(*args): operation None, graphs = args.
NewGraph(nodes, args) == Append(nodes, [operation |-> NoOperation, graphs |-> args])

SetOperation(nodes, operation) == [nodes EXCEPT ![Len(nodes)].operation = operation]

graph_from_iter(nodes, name) ==
    SetOperation(NewGraph(nodes, <<>>), Op("ReadIterFactory", name))

graph_from_file(nodes, filename) ==
    SetOperation(NewGraph(nodes, <<>>), Op("Read", filename))

graph_map_self(nodes, self, mapper) ==
    Append([nodes EXCEPT ![self].operation = Op("Map", mapper)], nodes[self])

graph_map(nodes, self, mapper) ==
    SetOperation(NewGraph(nodes, <<self>>), Op("Map", mapper))

graph_reduce(nodes, self, reducer_name) ==
    SetOperation(NewGraph(nodes, <<self>>), Op("Reduce", reducer_name))

graph_sort(nodes, self) ==
    SetOperation(NewGraph(nodes, <<self>>), Op("ExternalSort", ""))

graph_join(nodes, self, joiner_name, join_graph) ==
    SetOperation(NewGraph(nodes, <<self, join_graph>>), Op("Join", joiner_name))

\* A builder call has returned the Graph object it made.
Built(nodes) == bld' = [bld EXCEPT !.nodes = nodes, !.ret = Len(nodes)]

CanBuild == bld.pc = "build" /\ Len(bld.nodes) < MaxNodes

\* Graph(*args) called directly: a node without an operation.
BuildGraph ==
    /\ CanBuild
    /\ \E args \in SeqsUpTo(DOMAIN bld.nodes, 1) : Built(NewGraph(bld.nodes, args))
    /\ Only("bld")

BuildFromIter ==
    /\ CanBuild
    /\ \E name \in SourceNames : Built(graph_from_iter(bld.nodes, name))
    /\ Only("bld")

BuildFromFile ==
    /\ CanBuild
    /\ \E filename \in FileNames : Built(graph_from_file(bld.nodes, filename))
    /\ Only("bld")

BuildMap ==
    /\ CanBuild
    /\ \E self \in DOMAIN bld.nodes, mapper \in Mappers :
          Built(graph_map(bld.nodes, self, mapper))
    /\ Only("bld")

BuildReduce ==
    /\ CanBuild
    /\ \E self \in DOMAIN bld.nodes : Built(graph_reduce(bld.nodes, self, "first"))
    /\ Only("bld")

BuildSort ==
    /\ CanBuild
    /\ \E self \in DOMAIN bld.nodes : Built(graph_sort(bld.nodes, self))
    /\ Only("bld")

BuildJoin ==
    /\ CanBuild
    /\ \E self \in DOMAIN bld.nodes, join_graph \in DOMAIN bld.nodes,
          joiner_name \in BuildJoiners :
          Built(graph_join(bld.nodes, self, joiner_name, join_graph))
    /\ Only("bld")

InitBuild ==
    /\ bld = [pc |-> "build", nodes |-> <<>>, ret |-> 0]
    /\ JoinIdle /\ ReduceIdle /\ OthersIdle("bld")

NextBuild ==
    \/ BuildGraph \/ BuildFromIter \/ BuildFromFile
    \/ BuildMap \/ BuildReduce \/ BuildSort \/ BuildJoin

SpecBuild == InitBuild /\ [][NextBuild]_vars

\* ------------------------------------------------ the output of a run ---
\* An environment of a run: the rows each named source factory gives, and
\* the rows the parser makes of the lines of each file.
EnvNames == SourceNames \cup FileNames

\* Filter's condition, given by the caller: lambda row: row["k"] != 1.
condition(row) == row["k"] # I(1)

\* Map(mapper) over a whole stream.
RECURSIVE MapRows(_, _)
MapRows(mapper, rows) ==
    IF rows = <<>> THEN <<>>
    ELSE (IF mapper = "Filter" /\ ~condition(Head(rows)) THEN <<>> ELSE <<Head(rows)>>)
            \o MapRows(mapper, Tail(rows))

\* Reduce(reducer, keys) over a whole stream, from its p-th row on.
RECURSIVE ReduceRowsFrom(_, _, _)
ReduceRowsFrom(reducer_name, rows, p) ==
    IF p > Len(rows) THEN <<>>
    ELSE LET e == GroupEnd(KeysOf(rows), p)
         IN  CallReducer(reducer_name, SubSeq(rows, p, e))
                \o ReduceRowsFrom(reducer_name, rows, e + 1)

\* A run that raised TypeError before it yielded a row.
Raised == [ok |-> FALSE, rows |-> <<>>]

Yielded(rows) == [ok |-> TRUE, rows |-> rows]

\* list(nodes[g].run(**env)): the rows of a whole run of Graph object g, or
\* the TypeError of a node without operation that was pulled.
RECURSIVE RunAll(_, _, _)
RunAll(nodes, g, env) ==
    LET op == nodes[g].operation
        up(n) == RunAll(nodes, nodes[g].graphs[n], env)
    IN  CASE op.kind = "None" -> Raised
          [] op.kind \in {"ReadIterFactory", "Read"} -> Yielded(env[op.arg])
          [] op.kind = "Map" ->
                IF up(1).ok THEN Yielded(MapRows(op.arg, up(1).rows)) ELSE Raised
          [] op.kind = "Reduce" ->
                IF up(1).ok THEN Yielded(ReduceRowsFrom(op.arg, up(1).rows, 1)) ELSE Raised
          [] op.kind = "ExternalSort" ->
                IF up(1).ok THEN Yielded(StableSort(up(1).rows, Keys)) ELSE Raised
          [] op.kind = "Join" ->
                IF ~up(1).ok THEN Raised
                ELSE IF up(1).rows = <<>> THEN Yielded(<<>>)
                ELSE IF ~up(2).ok THEN Raised
                ELSE Yielded(RunJoin(NewJoin(op.arg, "_1", "_2", up(1).rows, up(2).rows)).out)

\* Two environments to run the graphs in.
BuildEnvs ==
    {[n \in EnvNames |->
        CASE n = "A" -> <<SideRow(1, "a"), SideRow(1, "a"), SideRow(2, "a")>>
          [] n = "B" -> <<SideRow(1, "b"), SideRow(2, "b")>>
          [] OTHER -> <<SideRow(2, "a"), SideRow(1, "a")>>],
     [n \in EnvNames |->
        CASE n = "A" -> <<SideRow(2, "a")>>
          [] n = "B" -> <<>>
          [] OTHER -> <<SideRow(1, "b")>>]}

\* C16: a builder call returns a new Graph object and leaves every Graph
\* object made before as it was, in operation and in upstream tuple; so a
\* graph built before yields after the call what it yielded before it.
C16_BuilderFrame ==
    [][bld.pc = "build" =>
          /\ Len(bld'.nodes) = Len(bld.nodes) + 1
          /\ bld'.ret = Len(bld.nodes) + 1
          /\ \A g \in DOMAIN bld.nodes :
                /\ bld'.nodes[g] = bld.nodes[g]
                /\ \A env \in BuildEnvs :
                      RunAll(bld'.nodes, g, env) = RunAll(bld.nodes, g, env)]_vars

\* A join of a mapped source with itself has been built on top of two
\* earlier graphs, and running it yields rows.
C16_Witness ==
    /\ bld.pc = "build" /\ Len(bld.nodes) = 3
    /\ bld.nodes[2].operation = Op("Map", "Filter") /\ bld.nodes[2].graphs = <<1>>
    /\ bld.nodes[3].operation.kind = "Join" /\ bld.nodes[3].graphs = <<2, 2>>
    /\ \E env \in BuildEnvs : RunAll(bld.nodes, 3, env).rows # <<>>

\* =========================================================================
\* Graph.run: one run of a graph.  Every call of run makes a generator; the
\* generator made for the node reached from the root over the upstream
\* edges p (a sequence of 1s and 2s) is the instance inst[p].  Nothing of a
\* generator's body runs before it is pulled for the first time.  One
\* action is one next() of the consumer on the root's generator, with all
\* the pulls it causes.
\* =========================================================================
MaxMaps == 2
MaxSrc == 2

\* The upstream edges a run follows: graphs[0], and graphs[1] when there
\* are two or more upstreams.
Edges(node) == 1..(IF Len(node.graphs) > 2 THEN 2 ELSE Len(node.graphs))

RECURSIVE ExPaths(_, _)
ExPaths(nodes, g) ==
    {<<>>} \cup UNION {{<<n>> \o q : q \in ExPaths(nodes, nodes[g].graphs[n])} :
                          n \in Edges(nodes[g])}

RECURSIVE NodeAt(_, _, _)
NodeAt(nodes, g, p) ==
    IF p = <<>> THEN g ELSE NodeAt(nodes, nodes[g].graphs[Head(p)], Tail(p))

NoKwargs == <<>>

\* A generator that does not exist yet: run has not been called.
NoInstance ==
    [st |-> "none", node |-> 0, kwargs |-> NoKwargs, calls |-> 0,
     streams |-> 0, opkw |-> NoKwargs, iterating |-> FALSE, pos |-> 0,
     yielded |-> 0, js |-> Idle]

\* node.run(**kwargs): a generator whose body has not begun.
NewInstance(g, kwargs) == [NoInstance EXCEPT !.st = "created", !.node = g, !.kwargs = kwargs]

NoResult == [kind |-> "none", row |-> <<>>]
RowResult(row) == [kind |-> "row", row |-> row]
StopIteration == [kind |-> "stop", row |-> <<>>]
TypeError == [kind |-> "TypeError", row |-> <<>>]

\* The body of run up to its yield from: the operation is looked at first;
\* then run is called on the upstreams and the operation is called with the
\* generators (a source operation: with the named sources).
RunBodyUpstreamFirst(e, p) ==
    LET i == e.inst[p]
        node == e.nodes[i.node]
        made == [q \in DOMAIN e.inst |->
                    IF \E n \in Edges(node) : q = p \o <<n>>
                    THEN NewInstance(node.graphs[q[Len(q)]], i.kwargs)
                    ELSE e.inst[q]]
    IN  IF node.operation = NoOperation
        THEN [e EXCEPT !.inst = [made EXCEPT ![p].st = "raised"], !.ret = TypeError]
        ELSE [e EXCEPT !.inst = [made EXCEPT ![p].st = "started", ![p].calls = @ + 1,
                    ![p].streams = Len(node.graphs),
                    ![p].opkw = IF Len(node.graphs) = 0 THEN i.kwargs ELSE NoKwargs]]

RunBody(e, p) ==
    LET i == e.inst[p]
        node == e.nodes[i.node]
        made == [q \in DOMAIN e.inst |->
                    IF \E n \in Edges(node) : q = p \o <<n>>
                    THEN NewInstance(node.graphs[q[Len(q)]], i.kwargs)
                    ELSE e.inst[q]]
    IN  IF node.operation = NoOperation
        THEN [e EXCEPT !.inst[p].st = "raised", !.ret = TypeError]
        ELSE [e EXCEPT !.inst = [made EXCEPT ![p].st = "started", ![p].calls = @ + 1,
                    ![p].streams = Len(node.graphs),
                    ![p].opkw = IF Len(node.graphs) = 0 THEN i.kwargs ELSE NoKwargs]]

\* ReadIterFactory.__call__ and Read.__call__: the first pull calls the
\* factory kwargs[name]() or opens the file; every pull takes one row.
SourceNext(e, p) ==
    LET i == e.inst[p]
        name == e.nodes[i.node].operation.arg
        begun == IF i.iterating THEN e
                 ELSE [e EXCEPT !.inst[p].iterating = TRUE, !.opened[name] = @ + 1]
        rows == IF e.nodes[i.node].operation.kind = "Read" THEN e.files[name]
                ELSE i.opkw[name]
    IN  IF i.pos < Len(rows)
        THEN [begun EXCEPT !.inst[p].pos = @ + 1, !.inst[p].yielded = @ + 1,
                           !.ret = RowResult(rows[i.pos + 1])]
        ELSE [begun EXCEPT !.inst[p].st = "done", !.ret = StopIteration]

\* Has next() been called on the joiner's iter_a (side 1), iter_b (side 2)?
\* iter_a is pulled first; iter_b only after iter_a gave a row.
JoinPulledBoth(s, side) == s.pc # "start"

JoinPulled(s, side) ==
    /\ s.pc # "start"
    /\ side = 2 => Len(s.rows_a) > 0

RECURSIVE Resume(_, _)
RECURSIVE DriveUpstream(_, _, _, _)

\* The upstream generator c is pulled until it has given n rows; when the
\* joiner has pulled it without getting a row, it is pulled once.
DriveUpstream(e, c, n, pulled) ==
    IF e.ret.kind \in {"TypeError", "stop"} THEN e
    ELSE IF e.inst[c].yielded < n THEN DriveUpstream(Resume(e, c), c, n, pulled)
    ELSE IF pulled /\ e.inst[c].st = "created" THEN Resume(e, c)
    ELSE e

\* Map.__call__: for row in rows: yield from self.mapper(row)
MapNextAhead(e, p) ==
    LET up == Resume(Resume(e, p \o <<1>>), p \o <<1>>)
        mapper == e.nodes[e.inst[p].node].operation.arg
    IN  CASE up.ret.kind = "row" ->
                IF mapper = "Filter" /\ ~condition(up.ret.row)
                THEN Resume([up EXCEPT !.ret = NoResult], p)
                ELSE [up EXCEPT !.inst[p].yielded = @ + 1]
          [] up.ret.kind = "stop" -> [up EXCEPT !.inst[p].st = "done"]
          [] OTHER -> [up EXCEPT !.inst[p].st = "raised"]

MapNext(e, p) ==
    LET up == Resume(e, p \o <<1>>)
        mapper == e.nodes[e.inst[p].node].operation.arg
    IN  CASE up.ret.kind = "row" ->
                IF mapper = "Filter" /\ ~condition(up.ret.row)
                THEN Resume([up EXCEPT !.ret = NoResult], p)
                ELSE [up EXCEPT !.inst[p].yielded = @ + 1]
          [] up.ret.kind = "stop" -> [up EXCEPT !.inst[p].st = "done"]
          [] OTHER -> [up EXCEPT !.inst[p].st = "raised"]

\* Join.__call__ with InnerJoiner, LeftJoiner or RightJoiner: the rows the
\* joiner has yielded are handed on one by one; when there is none, the
\* joiner takes its next step and pulls its upstreams as far as the step
\* has read them.
JoinNext(e, p) ==
    LET i == e.inst[p]
        joiner_name == e.nodes[i.node].operation.arg
        s == IF i.js = Idle
             THEN NewJoin(joiner_name, "_1", "_2",
                          RunAll(e.nodes, e.nodes[i.node].graphs[1], i.kwargs @@ e.files).rows,
                          RunAll(e.nodes, e.nodes[i.node].graphs[2], i.kwargs @@ e.files).rows)
             ELSE i.js
    IN  IF i.yielded < Len(s.out)
        THEN [e EXCEPT !.inst[p].yielded = @ + 1, !.ret = RowResult(s.out[i.yielded + 1])]
        ELSE IF s.pc = "done"
        THEN [e EXCEPT !.inst[p].st = "done", !.ret = StopIteration]
        ELSE LET t == JoinStep(s)
                 a == DriveUpstream(
                          [e EXCEPT !.inst[p].js = t], p \o <<1>>, t.iter_a, JoinPulled(t, 1))
                 b == DriveUpstream(
                          [a EXCEPT !.ret = IF a.ret.kind = "TypeError" THEN a.ret ELSE NoResult],
                          p \o <<2>>, t.iter_b, JoinPulled(t, 2))
             IN  IF b.ret.kind = "TypeError"
                 THEN [b EXCEPT !.inst[p].st = "raised"]
                 ELSE Resume([b EXCEPT !.ret = NoResult], p)

\* next() on the generator inst[p].
Resume(e, p) ==
    LET i == e.inst[p]
    IN  CASE i.st = "created" ->
                LET body == RunBody(e, p)
                IN  IF body.ret.kind = "TypeError" THEN body ELSE Resume(body, p)
          [] i.st = "started" ->
                LET kind == e.nodes[i.node].operation.kind
                IN  CASE kind \in {"ReadIterFactory", "Read"} -> SourceNext(e, p)
                      [] kind = "Map" -> MapNext(e, p)
                      [] kind = "Join" -> JoinNext(e, p)
                      [] OTHER -> [e EXCEPT !.ret = StopIteration]
          [] OTHER -> [e EXCEPT !.ret = StopIteration]


\* ------------------------------------------------------- the graphs run ---
RECURSIVE MapChain(_, _)
MapChain(nodes, mappers) ==
    IF mappers = <<>> THEN nodes
    ELSE MapChain(graph_map(nodes, Len(nodes), Head(mappers)), Tail(mappers))

SourceA == graph_from_iter(<<>>, "A")
SourceAB == graph_from_iter(SourceA, "B")

\* The graphs that are run; the root is the object made last.
ExGraphs ==
    {MapChain(SourceA, ms) : ms \in SeqsUpTo(Mappers, MaxMaps)}
      \cup {MapChain(graph_from_file(<<>>, "f"), ms) : ms \in SeqsUpTo({"DummyMapper"}, 1)}
      \cup UNION {{graph_join(SourceAB, 1, j, 2),
                   graph_join(SourceAB, 2, j, 1),
                   graph_join(graph_map(SourceA, 1, "DummyMapper"), 2, j, 2),
                   graph_join(graph_map(SourceA, 1, "Filter"), 2, j, 1),
                   graph_join(graph_map(SourceA, 1, "Filter"), 1, j, 2),
                   graph_map(graph_join(SourceAB, 1, j, 2), 3, "DummyMapper"),
                   graph_join(NewGraph(SourceAB, <<2>>), 1, j, 3),
                   graph_join(NewGraph(SourceAB, <<2>>), 3, j, 1)} : j \in BuildJoiners}
      \cup {NewGraph(<<>>, <<>>), NewGraph(SourceA, <<1>>),
            NewGraph(SourceAB, <<1, 2>>),
            graph_map(NewGraph(SourceA, <<1>>), 2, "DummyMapper")}

SourceRows(side) ==
    {rows \in SeqsUpTo({SideRow(k, side) : k \in 1..MaxKey}, MaxSrc) : IsSorted(rows)}

NewRun(nodes, kwargs, files) ==
    [pc |-> "built", nodes |-> nodes, root |-> Len(nodes), kwargs |-> kwargs,
     files |-> files,
     inst |-> [p \in ExPaths(nodes, Len(nodes)) |-> NoInstance],
     opened |-> [n \in EnvNames |-> 0],
     pulls |-> 0, delivered |-> <<>>, ret |-> NoResult]

\* gen = graph.run(**kwargs): the root's generator is made, nothing runs.
ExRun ==
    /\ ex.pc = "built"
    /\ ex' = [ex EXCEPT !.pc = "running",
                        !.inst[<<>>] = NewInstance(ex.root, ex.kwargs)]
    /\ Only("ex")

\* next(gen) gives a row.
ExNextRow ==
    /\ ex.pc = "running"
    /\ LET e == Resume([ex EXCEPT !.ret = NoResult], <<>>)
       IN  /\ e.ret.kind = "row"
           /\ ex' = [e EXCEPT !.pulls = @ + 1, !.delivered = Append(@, e.ret.row)]
    /\ Only("ex")

\* next(gen) raises StopIteration: the run is over.
ExNextStop ==
    /\ ex.pc = "running"
    /\ LET e == Resume([ex EXCEPT !.ret = NoResult], <<>>)
       IN  /\ e.ret.kind = "stop"
           /\ ex' = [e EXCEPT !.pulls = @ + 1, !.pc = "done"]
    /\ Only("ex")

\* next(gen) raises TypeError.
ExNextTypeError ==
    /\ ex.pc = "running"
    /\ LET e == Resume([ex EXCEPT !.ret = NoResult], <<>>)
       IN  /\ e.ret.kind = "TypeError"
           /\ ex' = [e EXCEPT !.pulls = @ + 1, !.pc = "TypeError"]
    /\ Only("ex")

InitExec ==
    /\ \E nodes \in ExGraphs, a \in SourceRows("a"), b \in SourceRows("b") :
          ex = NewRun(nodes, [n \in SourceNames |-> IF n = "A" THEN a ELSE b],
                      [n \in FileNames |-> b])
    /\ JoinIdle /\ ReduceIdle /\ OthersIdle("ex")

NextExec == ExRun \/ ExNextRow \/ ExNextStop \/ ExNextTypeError

SpecExec == InitExec /\ [][NextExec]_vars

\* ------------------------------------------------ claims on Graph.run ---
\* The paths of the run's graph that end in a source node.
SourcePaths ==
    {p \in DOMAIN ex.inst :
        ex.nodes[NodeAt(ex.nodes, ex.root, p)].operation.kind \in {"ReadIterFactory", "Read"}}

\* No source has been accessed: no factory was called, no file opened, no
\* source operation invoked.
NoSourceAccessed ==
    /\ \A n \in EnvNames : ex.opened[n] = 0
    /\ \A p \in SourcePaths : ex.inst[p].calls = 0

\* C17: running a Graph whose operation is not set fails with TypeError at
\* the first pull; no row is delivered, run is called on no upstream and no
\* source is accessed, before the failure and after it.
C17_UnsetFails ==
    (ex.pc # "idle" /\ ex.nodes[ex.root].operation = NoOperation) =>
        /\ ex.pulls > 0 => (ex.pc = "TypeError" /\ ex.pulls = 1)
        /\ ex.delivered = <<>>
        /\ \A p \in DOMAIN ex.inst : p # <<>> => ex.inst[p].st = "none"
        /\ NoSourceAccessed

\* A run of a Graph without operation and with two upstreams has failed.
C17_Witness ==
    /\ ex.pc = "TypeError"
    /\ ex.nodes[ex.root].operation = NoOperation
    /\ Len(ex.nodes[ex.root].graphs) = 2
    /\ ex.kwargs["A"] # <<>>

\* A graph that is a source under one-to-one mappers only.
RECURSIVE OneToOneChain(_, _)
OneToOneChain(nodes, g) ==
    \/ nodes[g].operation.kind \in {"ReadIterFactory", "Read"}
    \/ /\ nodes[g].operation = Op("Map", "DummyMapper")
       /\ OneToOneChain(nodes, nodes[g].graphs[1])

\* The rows taken from the sources so far.
RECURSIVE SumTaken(_)
SumTaken(ps) ==
    IF ps = {} THEN 0
    ELSE LET p == CHOOSE q \in ps : TRUE IN ex.inst[p].pos + SumTaken(ps \ {p})

\* C18: before the consumer's first pull no source factory has been called,
\* no file opened and no generator body begun; in a chain of one-to-one
\* mappers over a source, the rows taken from the source are as many as the
\* rows the consumer has pulled, whenever the consumer has control.
C18_NoReadAhead ==
    ex.pc # "idle" =>
        /\ ex.pulls = 0 =>
              /\ NoSourceAccessed
              /\ \A p \in DOMAIN ex.inst : ex.inst[p].st \in {"none", "created"}
        /\ OneToOneChain(ex.nodes, ex.root) => SumTaken(SourcePaths) = Len(ex.delivered)

\* A run of a source under two one-to-one mappers has delivered one row and
\* has another to give.
C18_Witness ==
    /\ ex.pc = "running" /\ Len(ex.nodes) = 3
    /\ OneToOneChain(ex.nodes, ex.root)
    /\ Len(ex.delivered) = 1 /\ Len(ex.kwargs["A"]) = 2
    /\ ex.opened["A"] = 1

\* Is the stream of path p pulled in a run that is pulled to its end?  The
\* right upstream of a join is pulled only when the left stream has a row.
RECURSIVE Pulled(_, _)
Pulled(g, p) ==
    \/ p = <<>>
    \/ /\ (ex.nodes[g].operation.kind = "Join" /\ Head(p) = 2) =>
              RunAll(ex.nodes, ex.nodes[g].graphs[1], ex.kwargs @@ ex.files).rows # <<>>
       /\ Pulled(ex.nodes[g].graphs[Head(p)], Tail(p))

\* What every operation is called with: a source operation the named
\* sources given to the root's run, any other the streams of its upstreams
\* and nothing else.
CalledRight ==
    \A p \in DOMAIN ex.inst :
        LET i == ex.inst[p]
            node == ex.nodes[NodeAt(ex.nodes, ex.root, p)]
        IN  i.calls > 0 =>
                /\ i.node = NodeAt(ex.nodes, ex.root, p)
                /\ i.streams = Len(node.graphs)
                /\ i.opkw = IF p \in SourcePaths THEN ex.kwargs ELSE NoKwargs
                /\ \A n \in Edges(node) : ex.inst[p \o <<n>>].node = node.graphs[n]

JoinTypeError ==
    /\ Raises(JS)
    /\ Commit([JS EXCEPT !.pc = "TypeError"])
    /\ UNCHANGED <<reduceVars, newVars>>

NullRow(k, side) == [c \in {"k", side} |-> IF c = "k" THEN (IF k = 0 THEN None ELSE I(k)) ELSE I(1)]

\* Sorted with null as the least key value.
NullSorted(side) ==
    {rows \in SeqsUpTo({NullRow(k, side) : k \in 0..MaxKey}, MaxLen) :
        \A i \in 1..(Len(rows) - 1) :
            \/ rows[i]["k"] = None
            \/ rows[i + 1]["k"] # None /\ rows[i]["k"].v <= rows[i + 1]["k"].v}

InitJoinNull ==
    /\ \E j \in Joiners, A \in NullSorted("a"), B \in NullSorted("b") :
          Load(NewJoin(j, "_1", "_2", A, B))
    /\ ReduceIdle
    /\ OthersIdle("join")

NextJoinNull == NextJoin \/ JoinTypeError

SpecJoinNull == InitJoinNull /\ [][NextJoinNull]_vars

\* C20: a joiner over sorted inputs with null and non-null key values ends
\* without an error; the inner join pairs exactly the rows with equal keys,
\* null with null.
C20_NullKeys ==
    /\ pc # "TypeError"
    /\ (joiner = "inner" /\ pc = "done") =>
          /\ \A p \in MatchPairs : Times(p) = 1
          /\ \A n \in DOMAIN prov : prov[n] \in MatchPairs

\* ------------------------------------------- joiners on unsorted inputs ---
\* The merge-joiners take whatever streams they are handed: here every pair
\* of streams of up to MaxLen rows, sorted or not.
StreamJoiners == {"inner", "left", "right"}

AnySeqs(side) == SeqsUpTo({SideRow(k, side) : k \in 1..MaxKey}, MaxLen)

InitJoinAny ==
    /\ \E j \in StreamJoiners, A \in AnySeqs("a"), B \in AnySeqs("b") :
          Load(NewJoin(j, "_1", "_2", A, B))
    /\ ReduceIdle
    /\ OthersIdle("join")

NextJoinAny ==
    \/ InnerStart
    \/ InnerLess
    \/ InnerBuffer
    \/ InnerDrain
    \/ LeftStart
    \/ LeftScan
    \/ LeftEmit
    \/ RightStart
    \/ RightScan
    \/ RightEmit

SpecJoinAny == InitJoinAny /\ [][NextJoinAny]_vars

\* The buffer is matched_rows_a in RightJoiner, matched_rows_b in the other
\* two; the other side is the one the outer loop walks.
BufferedInput(s) == IF s.joiner = "right" THEN s.rows_a ELSE s.rows_b
BufferedTaken(s) == IF s.joiner = "right" THEN s.iter_a ELSE s.iter_b
DrivingTaken(s) == IF s.joiner = "right" THEN s.iter_b ELSE s.iter_a

\* Of a yielded row's two origins, the one on the driving side.
DrivingOrigin(s, n) == IF s.joiner = "right" THEN s.prov[n][2] ELSE s.prov[n][1]

\* The rows in the buffer are rows already taken from the buffered input,
\* and they all have the same key tuple.
BufferOneKey(s) ==
    /\ \A i \in DOMAIN s.matched_rows : s.matched_rows[i] \in 1..BufferedTaken(s)
    /\ \A i, j \in DOMAIN s.matched_rows :
          KeyOf(BufferedInput(s)[s.matched_rows[i]]) =
              KeyOf(BufferedInput(s)[s.matched_rows[j]])

\* The rows yielded in a step are all made from the one driving row held
\* when the step began, and a step takes at most one more driving row.
DrivingStreamed ==
    /\ DrivingTaken(JS)' \in {DrivingTaken(JS), DrivingTaken(JS) + 1}
    /\ Len(prov') >= Len(prov)
    /\ \A n \in (Len(prov) + 1)..Len(prov') :
          DrivingOrigin(JS, n)' = DrivingTaken(JS)

\* C21: at every step of InnerJoiner, LeftJoiner and RightJoiner the buffer
\* holds rows of one side only, all with one key tuple, and the rows of the
\* driving side are used one at a time: every yielded row is made from the
\* driving row current at that step.
C21_OneSideBuffered == [](BufferOneKey(JS)) /\ [][DrivingStreamed]_vars

\* A buffer of two rows was yielded against a driving row, on inputs that
\* are not sorted.
C21_Witness ==
    /\ Len(matched_rows) >= 2
    /\ Len(prov) >= 2
    /\ ~IsSorted(rows_a)
    /\ pc \in {"loop1", "loop2", "scan", "emit"}

\* ------------------------------------------------ the end of the stream ---
\* One input of up to MaxLen rows against one of up to MaxShort rows, either
\* way round, sorted or not.
MaxShort == 2

ShortSeqs(side) == SeqsUpTo({SideRow(k, side) : k \in 1..MaxKey}, MaxShort)

InitJoinLive ==
    /\ \E j \in StreamJoiners :
          \E A \in AnySeqs("a") :
             \E B \in IF A \in ShortSeqs("a") THEN AnySeqs("b") ELSE ShortSeqs("b") :
                Load(NewJoin(j, "_1", "_2", A, B))
    /\ ReduceIdle
    /\ OthersIdle("join")

\* The consumer of the joined stream keeps asking for the next row until the
\* stream ends, so a generator that can take a step takes one.
SpecJoinLive == InitJoinLive /\ [][NextJoinAny]_vars /\ WF_vars(NextJoinAny)

\* next() is the only way a joiner reads an input: a step takes at most one
\* more row of each input, never goes back, and leaves the inputs as they are.
SinglePass ==
    /\ iter_a' \in {iter_a, iter_a + 1}
    /\ iter_b' \in {iter_b, iter_b + 1}
    /\ iter_a' <= Len(rows_a)
    /\ iter_b' <= Len(rows_b)
    /\ rows_a' = rows_a
    /\ rows_b' = rows_b

\* C22: on every pair of finite inputs, sorted or not, InnerJoiner,
\* LeftJoiner and RightJoiner reach the end of their output stream, and no
\* step takes a row of an input a second time.
C22_EndsSinglePass == <>(pc = "done") /\ [][SinglePass]_vars

\* A joiner has finished on two unsorted inputs of full length, having taken
\* every row of both.
C22_Witness ==
    /\ pc = "done"
    /\ ~IsSorted(rows_a) /\ ~IsSorted(rows_b)
    /\ iter_a = Len(rows_a) /\ iter_b = Len(rows_b)
    /\ Len(rows_a) = MaxLen /\ Len(rows_b) = MaxShort
    /\ Len(out) > 0

====
